---- MODULE Spec2Model ----
(***************************************************************************)
(* ThumbHash (rust/src/lib.rs): the encoder rgba_to_thumb_hash and the     *)
(* three decoders thumb_hash_to_rgba, thumb_hash_to_average_rgba and       *)
(* thumb_hash_to_approximate_aspect_ratio, as operators on byte sequences, *)
(* and a state machine that applies them to inputs drawn from bounded sets.*)
(*                                                                         *)
(* Numbers.  The code computes in f32.  Here every f32 value is the exact  *)
(* rational it approximates, kept as a pair <<num, den>> or as an integer  *)
(* in a stated unit.  The roundings the claims rest on are of quotients of *)
(* small integers (l_limit*w/max(w,h), 32*lx/ly, 63*sum/765, ...), whose   *)
(* distance from a rounding boundary k+1/2 is either 0 with both operands  *)
(* exactly representable or far above the f32 error of the quotient, so    *)
(* f32::round and the exact rounding agree on them.  A sum the exact       *)
(* arithmetic makes 0 is 0 here; in f32 it is exactly 0 when every sample  *)
(* of the plane is 0 (the L plane of a black image, the P and Q planes of  *)
(* a grey one) and can be a rounding residue otherwise.                    *)
(*                                                                         *)
(* Not computable here: the cosine sums of the DCT (lib.rs 62-72) and the  *)
(* pixel synthesis of the inverse DCT (lib.rs 226-288).  A uniform channel *)
(* has its exact transform (the sample times the mean of each cosine, which*)
(* is 0 unless the frequency is a multiple of twice the size); the AC sums *)
(* of a non-uniform channel are stand-in values selected by the image's    *)
(* seed;                                                                   *)
(* of the decoded image the dimensions, the number of bytes pushed and the *)
(* indices the loops use are modelled, not the pixel values.               *)
(***************************************************************************)
EXTENDS Integers, Sequences, FiniteSets, TLC

VARIABLES
    img,     \* the encoder's input image (w, h, rgba), or NoImage
    fields,  \* the encoder's quantized values (lib.rs 98-145), or NoFields
    hash,    \* the hash: the encoder's output or a caller's bytes, or NoHash
    rgba,    \* the outcome of thumb_hash_to_rgba(hash), or NotRun
    avg,     \* the outcome of thumb_hash_to_average_rgba(hash), or NotRun
    ratio    \* the outcome of thumb_hash_to_approximate_aspect_ratio(hash)

vars == <<img, fields, hash, rgba, avg, ratio>>

NoImage == [kind |-> "NoImage"]
NoFields == [kind |-> "NoFields"]
NoHash == <<-1>>
NotRun == [kind |-> "NotRun"]

(***************************************************************************)
(* Integer helpers.                                                        *)
(***************************************************************************)
Max(a, b) == IF a >= b THEN a ELSE b

Abs(a) == IF a < 0 THEN -a ELSE a

RECURSIVE Pow2(_)
Pow2(n) == IF n = 0 THEN 1 ELSE 2 * Pow2(n - 1)

\* a | b on non-negative integers
RECURSIVE BitOr(_, _)
BitOr(a, b) ==
    IF a = 0 THEN b
    ELSE IF b = 0 THEN a
    ELSE 2 * BitOr(a \div 2, b \div 2) + (IF a % 2 = 1 \/ b % 2 = 1 THEN 1 ELSE 0)

\* a & b on non-negative integers
RECURSIVE BitAnd(_, _)
BitAnd(a, b) ==
    IF a = 0 \/ b = 0 THEN 0
    ELSE 2 * BitAnd(a \div 2, b \div 2) + (IF a % 2 = 1 /\ b % 2 = 1 THEN 1 ELSE 0)

\* a >> n
Shr(a, n) == a \div Pow2(n)

\* a << n in an unsigned integer of `width` bits (bits shifted out are lost)
Shl(a, n, width) == (a * Pow2(n)) % Pow2(width)

\* n / d cut towards zero, as an integer cast without .round() gives
TruncDiv(n, d) == n \div d

\* (n / d).round() for n >= 0, d > 0: f32::round rounds half away from zero
RoundDiv(n, d) == (2 * n + d) \div (2 * d)

\* x as u8 for a non-negative integer x
AsU8(x) == x % 256

(***************************************************************************)
(* Images.  An image is w x h pixels; its first k pixels (row-major) have  *)
(* alpha a, the others alpha 255.  px is the colour <<R, G, B>> of the     *)
(* pixels when flat, and the mean composited colour otherwise.  seed       *)
(* selects the stand-in cosine sums of the non-uniform channels.           *)
(***************************************************************************)
MaxSize == 100

NumPixels(im) == im.w * im.h

\* rgba[4 * i + 3], the alpha of pixel i (0-based)
AlphaOf(im, i) == IF i < im.k THEN im.a ELSE 255

\* avg_a after the loop of lines 19-25, in units of 1/255
SumAlpha(im) == im.k * im.a + (NumPixels(im) - im.k) * 255

\* has_alpha taken from the mean alpha rounded to 8 bits
enc_has_alpha_rounded(im) == (2 * SumAlpha(im) + NumPixels(im)) \div (2 * NumPixels(im)) < 255

\* has_alpha = avg_a < (w * h) as f32
enc_has_alpha(im) == SumAlpha(im) < 255 * NumPixels(im)

enc_l_limit(im) == IF enc_has_alpha(im) THEN 5 ELSE 7

enc_lx(im) == Max(RoundDiv(enc_l_limit(im) * im.w, Max(im.w, im.h)), 1)

\* ly without .round()
enc_ly_floor(im) == Max((enc_l_limit(im) * im.h) \div Max(im.w, im.h), 1)

enc_ly(im) == Max(RoundDiv(enc_l_limit(im) * im.h, Max(im.w, im.h)), 1)

\* avg_r, avg_g, avg_b after lines 26-30, in units of 1/255: the alpha-weighted
\* mean of the colour, left at 0 when avg_a = 0
AvgColour(im) ==
    IF SumAlpha(im) > 0
    THEN [c \in 1..3 |-> (SumAlpha(im) * im.px[c]) \div SumAlpha(im)]
    ELSE <<0, 0, 0>>

\* r, g, b of lines 44-46 for a pixel of alpha al, in units of 1/255
Composite(im, al) ==
    [c \in 1..3 |-> (AvgColour(im)[c] * (255 - al) + al * im.px[c]) \div 255]

\* the mean of the composited colour over the image, in units of 1/255
MeanColour(im) == IF im.k > 0 THEN Composite(im, im.a) ELSE Composite(im, 255)

\* whether every sample of a channel plane (l, p, q, a of lines 47-50) is equal
Uniform(im, ch) ==
    IF ch = "a" THEN im.k = 0 \/ im.k = NumPixels(im)
    ELSE im.flat \/ SumAlpha(im) = 0

(***************************************************************************)
(* encode_channel (lib.rs 54-88).                                          *)
(***************************************************************************)
MaxCoef == 10

ChannelNo(ch) == CASE ch = "l" -> 0 [] ch = "p" -> 1 [] ch = "q" -> 2 [] ch = "a" -> 3

\* the stand-in for the AC sum f of a non-uniform channel, in units of 1/MaxCoef
StandIn(seed, ch, cx, cy) ==
    ((seed * 7 + ChannelNo(ch) * 5 + cx * 3 + cy * 11 + cx * cy * seed)
        % (2 * MaxCoef + 1)) - MaxCoef

\* f for (cx, cy) = (0, 0): the mean of the channel plane, as <<num, den>>
DctDC(im, ch) ==
    LET c == MeanColour(im)
    IN  CASE ch = "l" -> <<c[1] + c[2] + c[3], 3 * 255>>
          [] ch = "p" -> <<c[1] + c[2] - 2 * c[3], 2 * 255>>
          [] ch = "q" -> <<c[1] - c[2], 255>>
          [] ch = "a" -> <<SumAlpha(im), 255 * NumPixels(im)>>

\* the sum over x in 0..n-1 of cos(pi / n * c * (x + 0.5)), divided by n: 1 for
\* c = 0, (-1)^(c / 2n) when 2n divides c, and 0 for every other c
CosMean(n, c) ==
    IF c % (2 * n) # 0 THEN 0
    ELSE IF (c \div (2 * n)) % 2 = 0 THEN 1 ELSE -1

\* the denominator of the AC sums of a channel: that of its DC when the plane is
\* uniform, MaxCoef otherwise
ChannelUnit(im, ch) == IF Uniform(im, ch) THEN DctDC(im, ch)[2] ELSE MaxCoef

\* f for (cx, cy) # (0, 0), in units of 1/ChannelUnit: exact for a uniform plane
\* (the sample times the two cosine means), the stand-in otherwise
DctAC(im, ch, cx, cy) ==
    IF Uniform(im, ch)
    THEN DctDC(im, ch)[1] * CosMean(im.w, cx) * CosMean(im.h, cy)
    ELSE StandIn(im.seed, ch, cx, cy)

\* the (cx, cy) visited by `while cx * ny < nx * (ny - cy)` from cx on, in row cy
RECURSIVE EncRow(_, _, _, _)
EncRow(nx, ny, cy, cx) ==
    IF cx * ny < nx * (ny - cy)
    THEN <<(<<cx, cy>>)>> \o EncRow(nx, ny, cy, cx + 1)
    ELSE <<>>

\* the (cx, cy) visited by `for cy in 0..ny`, from row cy on, each row from cx = 0
RECURSIVE EncScan(_, _, _)
EncScan(nx, ny, cy) ==
    IF cy < ny THEN EncRow(nx, ny, cy, 0) \o EncScan(nx, ny, cy + 1) ELSE <<>>

\* scale = f.abs().max(scale) over the AC terms
RECURSIVE MaxAbs(_)
MaxAbs(s) == IF s = <<>> THEN 0 ELSE Max(Abs(Head(s)), MaxAbs(Tail(s)))

\* lines 82-86 with an else branch that sets each ac to 0.5
NormalizeMidpoint(raw, scale, unit) ==
    IF scale > 0
    THEN [i \in 1..Len(raw) |-> <<scale + raw[i], 2 * scale>>]
    ELSE [i \in 1..Len(raw) |-> <<1, 2>>]

\* lines 82-86: with scale > 0 each ac becomes 0.5 + 0.5 / scale * ac, else it is
\* left as it is; raw and scale in units of 1/unit, the result as <<num, den>>
Normalize(raw, scale, unit) ==
    IF scale > 0
    THEN [i \in 1..Len(raw) |-> <<scale + raw[i], 2 * scale>>]
    ELSE [i \in 1..Len(raw) |-> <<raw[i], unit>>]

\* (dc, ac, scale): dc and each ac as <<num, den>>, scale as <<num, den>>
encode_channel(im, ch, nx, ny) ==
    LET scan == EncScan(nx, ny, 0)
        acs == SelectSeq(scan, LAMBDA c : c[1] > 0 \/ c[2] > 0)
        raw == [i \in 1..Len(acs) |-> DctAC(im, ch, acs[i][1], acs[i][2])]
        scale == MaxAbs(raw)
        unit == ChannelUnit(im, ch)
    IN  [dc |-> DctDC(im, ch), ac |-> Normalize(raw, scale, unit), scale |-> <<scale, unit>>]

\* lines 92-96: the alpha channel, or (1.0, Vec::new(), 1.0) without alpha
encode_alpha(im) ==
    IF enc_has_alpha(im)
    THEN encode_channel(im, "a", 5, 5)
    ELSE [dc |-> <<1, 1>>, ac |-> <<>>, scale |-> <<1, 1>>]

(***************************************************************************)
(* rgba_to_thumb_hash (lib.rs 9-146).                                      *)
(***************************************************************************)
\* (15.0 * f).round() as u8 for f = <<num, den>> >= 0
Nibble(f) == RoundDiv(15 * f[1], f[2])

\* the integers the encoder writes: the header fields of lines 100-119 and the
\* 4-bit values u of lines 125 and 136, channel by channel
Quantize(im) ==
    LET lx == enc_lx(im)
        ly == enc_ly(im)
        L == encode_channel(im, "l", Max(lx, 3), Max(ly, 3))
        P == encode_channel(im, "p", 3, 3)
        Q == encode_channel(im, "q", 3, 3)
        A == encode_alpha(im)
    IN  [kind |-> "Fields",
         l_dc |-> RoundDiv(63 * L.dc[1], L.dc[2]),
         p_dc |-> RoundDiv(63 * (P.dc[2] + P.dc[1]), 2 * P.dc[2]),
         q_dc |-> RoundDiv(63 * (Q.dc[2] + Q.dc[1]), 2 * Q.dc[2]),
         l_scale |-> RoundDiv(31 * L.scale[1], L.scale[2]),
         has_alpha |-> enc_has_alpha(im),
         lx |-> lx,
         ly |-> ly,
         p_scale |-> RoundDiv(63 * P.scale[1], P.scale[2]),
         q_scale |-> RoundDiv(63 * Q.scale[1], Q.scale[2]),
         is_landscape |-> im.w > im.h,
         a_dc |-> RoundDiv(15 * A.dc[1], A.dc[2]),
         a_scale |-> RoundDiv(15 * A.scale[1], A.scale[2]),
         l_ac |-> [i \in 1..Len(L.ac) |-> Nibble(L.ac[i])],
         p_ac |-> [i \in 1..Len(P.ac) |-> Nibble(P.ac[i])],
         q_ac |-> [i \in 1..Len(Q.ac) |-> Nibble(Q.ac[i])],
         a_ac |-> [i \in 1..Len(A.ac) |-> Nibble(A.ac[i])]]

\* header24 (u32).  Each field is below 2^6 and shifted by at most 23, so no bit
\* leaves the 32
Header24(f) ==
    BitOr(f.l_dc,
      BitOr(f.p_dc * Pow2(6),
        BitOr(f.q_dc * Pow2(12),
          BitOr(f.l_scale * Pow2(18), IF f.has_alpha THEN Pow2(23) ELSE 0))))

\* header16 with p_scale shifted by 2, over the top bit of the limit value
Header16Overlap(f) ==
    BitOr(IF f.is_landscape THEN f.ly ELSE f.lx,
      BitOr(Shl(f.p_scale, 2, 16),
        BitOr(Shl(f.q_scale, 9, 16), IF f.is_landscape THEN Pow2(15) ELSE 0)))

\* header16 (u16): the shifts are of u16 values
Header16(f) ==
    BitOr(IF f.is_landscape THEN f.ly ELSE f.lx,
      BitOr(Shl(f.p_scale, 3, 16),
        BitOr(Shl(f.q_scale, 9, 16), IF f.is_landscape THEN Pow2(15) ELSE 0)))

\* lines 109-120: the five header bytes, and the alpha byte when has_alpha
WriteHeader(f) ==
    LET header24 == Header24(f)
        header16 == Header16(f)
    IN  << BitAnd(header24, 255),
           BitAnd(Shr(header24, 8), 255),
           AsU8(Shr(header24, 16)),
           BitAnd(header16, 255),
           AsU8(Shr(header16, 8)) >>
        \o (IF f.has_alpha
            THEN <<BitOr(AsU8(f.a_dc), Shl(AsU8(f.a_scale), 4, 8))>>
            ELSE <<>>)

\* the packer without the << 4 of line 127
RECURSIVE PackAcUnshifted(_, _)
PackAcUnshifted(st, us) ==
    IF us = <<>> THEN st
    ELSE IF st.is_odd
    THEN PackAcUnshifted([hash |-> [st.hash EXCEPT ![Len(st.hash)] = BitOr(@, Head(us))],
                          is_odd |-> FALSE],
                         Tail(us))
    ELSE PackAcUnshifted([hash |-> Append(st.hash, Head(us)), is_odd |-> TRUE], Tail(us))

\* one pass of `for f in ac` (lines 124-132, 135-143) from the state (hash, is_odd)
\* over the 4-bit values us
RECURSIVE PackAc(_, _)
PackAc(st, us) ==
    IF us = <<>> THEN st
    ELSE IF st.is_odd
    THEN PackAc([hash |-> [st.hash EXCEPT ![Len(st.hash)] = BitOr(@, Shl(Head(us), 4, 8))],
                 is_odd |-> FALSE],
                Tail(us))
    ELSE PackAc([hash |-> Append(st.hash, Head(us)), is_odd |-> TRUE], Tail(us))

\* lines 98-145 with the AC values left out when they are all zero
WriteHashSkipZero(f) ==
    LET s0 == [hash |-> WriteHeader(f), is_odd |-> FALSE]
        s3 == PackAc(PackAc(PackAc(s0, f.l_ac), f.p_ac), f.q_ac)
        us == f.l_ac \o f.p_ac \o f.q_ac \o f.a_ac
    IN  IF \A i \in 1..Len(us) : us[i] = 0 THEN s0.hash
        ELSE IF f.has_alpha THEN PackAc(s3, f.a_ac).hash ELSE s3.hash

\* lines 98-145: the hash written from the quantized values
WriteHash(f) ==
    LET s0 == [hash |-> WriteHeader(f), is_odd |-> FALSE]
        s3 == PackAc(PackAc(PackAc(s0, f.l_ac), f.p_ac), f.q_ac)
    IN  IF f.has_alpha THEN PackAc(s3, f.a_ac).hash ELSE s3.hash

(***************************************************************************)
(* thumb_hash_to_approximate_aspect_ratio (lib.rs 321-332).  The f32       *)
(* lx / ly is kept as the pair lx, ly; ly = 0 stands for +infinity.        *)
(***************************************************************************)
Err == [kind |-> "Err"]

Panic == [kind |-> "Panic"]

\* hash[i], 0-based as in the code
Byte(hs, i) == hs[i + 1]

thumb_hash_to_approximate_aspect_ratio(hs) ==
    IF Len(hs) < 5 THEN Err
    ELSE LET has_alpha == BitAnd(Byte(hs, 2), 128) # 0
             l_max == IF has_alpha THEN 5 ELSE 7
             l_min == BitAnd(Byte(hs, 3), 7)
             is_landscape == BitAnd(Byte(hs, 4), 128) # 0
         IN  [kind |-> "Ok",
              has_alpha |-> has_alpha,
              l_min |-> l_min,
              is_landscape |-> is_landscape,
              lx |-> IF is_landscape THEN l_max ELSE l_min,
              ly |-> IF is_landscape THEN l_min ELSE l_max]

(***************************************************************************)
(* thumb_hash_to_average_rgba (lib.rs 298-316).  r, g, b are in units of   *)
(* 1/378 (l = 6 l_dc / 378, p = 6 (2 p_dc - 63) / 378, ...), a in units of *)
(* 1/15.  hash[5] of a slice of length 5 panics (index out of bounds).     *)
(***************************************************************************)
Clamp(x, lo, hi) == IF x < lo THEN lo ELSE IF x > hi THEN hi ELSE x

thumb_hash_to_average_rgba(hs) ==
    IF Len(hs) < 5 THEN Err
    ELSE LET header == BitOr(Byte(hs, 0),
                         BitOr(Byte(hs, 1) * Pow2(8), Byte(hs, 2) * Pow2(16)))
             l == BitAnd(header, 63)
             p == BitAnd(Shr(header, 6), 63)
             q == BitAnd(Shr(header, 12), 63)
             has_alpha == Shr(header, 23) # 0
             l378 == 6 * l                       \* l as f32 / 63.0
             p378 == 6 * (2 * p - 63)            \* p as f32 / 31.5 - 1.0
             q378 == 6 * (2 * q - 63)            \* q as f32 / 31.5 - 1.0
             b == l378 - (2 * p378) \div 3       \* l - 2.0 / 3.0 * p
             r == (3 * l378 - b + q378) \div 2   \* (3.0 * l - b + q) / 2.0
             g == r - q378                       \* r - q
         IN  IF has_alpha /\ ~(5 < Len(hs)) THEN Panic
             ELSE [kind |-> "Ok",
                   l_dc |-> l, p_dc |-> p, q_dc |-> q, has_alpha |-> has_alpha,
                   a_dc |-> IF has_alpha THEN BitAnd(Byte(hs, 5), 15) ELSE 15,
                   r |-> Clamp(r, 0, 378),
                   g |-> Clamp(g, 0, 378),
                   b |-> Clamp(b, 0, 378),
                   a |-> IF has_alpha THEN BitAnd(Byte(hs, 5), 15) ELSE 15]

(***************************************************************************)
(* thumb_hash_to_rgba (lib.rs 148-292).                                    *)
(***************************************************************************)
CosTableLen == 7

None == -1

\* read_byte that yields 0 at the end of the slice instead of an error
read_byte_padded(bytes) ==
    IF Len(bytes) = 0 THEN [ok |-> TRUE, byte |-> 0, rest |-> <<>>]
    ELSE [ok |-> TRUE, byte |-> Head(bytes), rest |-> Tail(bytes)]

\* read_byte: the first byte and the rest of the slice, or an error
read_byte(bytes) ==
    IF Len(bytes) = 0 THEN [ok |-> FALSE]
    ELSE [ok |-> TRUE, byte |-> Head(bytes), rest |-> Tail(bytes)]

\* the `while cx * ny < nx * (ny - cy)` loop of decode_channel in row cy from cx on;
\* st is (ok, hash, prev_bits, ac) and ac collects the 4-bit values read
RECURSIVE DecRow(_, _, _, _, _)
DecRow(nx, ny, cy, cx, st) ==
    IF ~st.ok \/ ~(cx * ny < nx * (ny - cy)) THEN st
    ELSE IF st.prev_bits # None
    THEN DecRow(nx, ny, cy, cx + 1,
                [st EXCEPT !.prev_bits = None, !.ac = Append(@, st.prev_bits)])
    ELSE LET rb == read_byte(st.hash)
         IN  IF ~rb.ok THEN [st EXCEPT !.ok = FALSE]
             ELSE DecRow(nx, ny, cy, cx + 1,
                         [ok |-> TRUE, hash |-> rb.rest,
                          prev_bits |-> Shr(rb.byte, 4),
                          ac |-> Append(st.ac, BitAnd(rb.byte, 15))])

RECURSIVE DecRows(_, _, _, _)
DecRows(nx, ny, cy, st) ==
    IF st.ok /\ cy < ny
    THEN DecRows(nx, ny, cy + 1, DecRow(nx, ny, cy, IF cy > 0 THEN 0 ELSE 1, st))
    ELSE st

\* decode_channel: the channel's 4-bit values `bits` in order (the coefficient
\* pushed is (bits / 7.5 - 1) * scale), read from the state st
decode_channel(nx, ny, st) == DecRows(nx, ny, 0, [st EXCEPT !.ac = <<>>])

\* the (cx, cy) of the L loop of lines 241-249, in order
RECURSIVE SynthRow(_, _, _, _)
SynthRow(lx, ly, cy, cx) ==
    IF cx * ly < lx * (ly - cy)
    THEN <<(<<cx, cy>>)>> \o SynthRow(lx, ly, cy, cx + 1)
    ELSE <<>>

RECURSIVE SynthScan(_, _, _)
SynthScan(lx, ly, cy) ==
    IF cy < ly
    THEN SynthRow(lx, ly, cy, IF cy > 0 THEN 0 ELSE 1) \o SynthScan(lx, ly, cy + 1)
    ELSE <<>>

\* the (cx, cy) of the P, Q loop (n = 3, lines 253-263) and the A loop (n = 5,
\* lines 268-276): `for cy in 0..n`, `while cx < n - cy`
SynthTri(n) ==
    {c \in (0..(n - 1)) \X (0..(n - 1)) : c[1] < n - c[2] /\ (c[2] > 0 \/ c[1] >= 1)}

\* whether the loop body of one pixel (lines 226-277) indexes out of bounds:
\* fx and fy hold CosTableLen entries, j runs over the AC lists
PixelPanics(lx, ly, has_alpha, l_ac, p_ac, q_ac, a_ac) ==
    LET m == IF has_alpha THEN 5 ELSE 3
        lscan == SynthScan(lx, ly, 0)
    IN  \/ Max(lx, m) > CosTableLen
        \/ Max(ly, m) > CosTableLen
        \/ Len(lscan) > Len(l_ac)
        \/ Cardinality(SynthTri(3)) > Len(p_ac)
        \/ Cardinality(SynthTri(3)) > Len(q_ac)
        \/ has_alpha /\ Cardinality(SynthTri(5)) > Len(a_ac)

\* lines 163-177 without the .max(3) of lines 174-175
ParseHeaderUnclamped(b0, b1, b2, b3, b4) ==
    LET header24 == BitOr(b0, BitOr(b1 * Pow2(8), b2 * Pow2(16)))
        header16 == BitOr(b3, Shl(b4, 8, 16))
        has_alpha == Shr(header24, 23) # 0
        is_landscape == Shr(header16, 15) # 0
        l_max == IF has_alpha THEN 5 ELSE 7
    IN  [l_dc |-> BitAnd(header24, 63),
         p_dc |-> BitAnd(Shr(header24, 6), 63),
         q_dc |-> BitAnd(Shr(header24, 12), 63),
         l_scale |-> BitAnd(Shr(header24, 18), 31),
         has_alpha |-> has_alpha,
         p_scale |-> BitAnd(Shr(header16, 3), 63),
         q_scale |-> BitAnd(Shr(header16, 9), 63),
         is_landscape |-> is_landscape,
         l_limit_value |-> BitAnd(header16, 7),
         lx |-> IF is_landscape THEN l_max ELSE BitAnd(header16, 7),
         ly |-> IF is_landscape THEN BitAnd(header16, 7) ELSE l_max]

\* lines 163-177 on the five header bytes: the fields as the integers read (the
\* code scales them: l_dc / 63.0, p_dc / 31.5 - 1.0, l_scale / 31.0, ...)
ParseHeader(b0, b1, b2, b3, b4) ==
    LET header24 == BitOr(b0, BitOr(b1 * Pow2(8), b2 * Pow2(16)))
        header16 == BitOr(b3, Shl(b4, 8, 16))
        has_alpha == Shr(header24, 23) # 0
        is_landscape == Shr(header16, 15) # 0
        l_max == IF has_alpha THEN 5 ELSE 7
    IN  [l_dc |-> BitAnd(header24, 63),
         p_dc |-> BitAnd(Shr(header24, 6), 63),
         q_dc |-> BitAnd(Shr(header24, 12), 63),
         l_scale |-> BitAnd(Shr(header24, 18), 31),
         has_alpha |-> has_alpha,
         p_scale |-> BitAnd(Shr(header16, 3), 63),
         q_scale |-> BitAnd(Shr(header16, 9), 63),
         is_landscape |-> is_landscape,
         l_limit_value |-> BitAnd(header16, 7),
         lx |-> Max(3, IF is_landscape THEN l_max ELSE BitAnd(header16, 7)),
         ly |-> Max(3, IF is_landscape THEN BitAnd(header16, 7) ELSE l_max)]

\* lines 178-183: (a_dc, a_scale) from header8, in units of 1/15; (1.0, 1.0)
\* without alpha
ParseAlpha(has_alpha, header8) ==
    IF has_alpha
    THEN [a_dc |-> BitAnd(header8, 15), a_scale |-> Shr(header8, 4)]
    ELSE [a_dc |-> 15, a_scale |-> 15]

\* lines 185-292 from the parsed header hd, the ratio r and the unread bytes
DecodeBody(hd, r, bytes) ==
    LET s0 == [ok |-> TRUE, hash |-> bytes, prev_bits |-> None, ac |-> <<>>]
        sl == decode_channel(hd.lx, hd.ly, s0)
        sp == decode_channel(3, 3, sl)
        sq == decode_channel(3, 3, sp)
        sa == IF hd.has_alpha THEN decode_channel(5, 5, sq) ELSE [sq EXCEPT !.ac = <<>>]
        w == IF r.lx > r.ly THEN 32 ELSE RoundDiv(32 * r.lx, r.ly)
        h == IF r.lx > r.ly THEN RoundDiv(32 * r.ly, r.lx) ELSE 32
    IN  IF ~sl.ok \/ ~sp.ok \/ ~sq.ok \/ ~sa.ok THEN Err
        ELSE IF w * h > 0 /\ PixelPanics(hd.lx, hd.ly, hd.has_alpha, sl.ac, sp.ac, sq.ac, sa.ac)
        THEN Panic
        ELSE [kind |-> "Ok", w |-> w, h |-> h, len |-> 4 * (w * h),
              hd |-> hd,
              l_ac |-> sl.ac, p_ac |-> sp.ac, q_ac |-> sq.ac, a_ac |-> sa.ac,
              unread |-> Len(sa.hash)]

thumb_hash_to_rgba(hs) ==
    LET r == thumb_hash_to_approximate_aspect_ratio(hs)
        r0 == read_byte(hs)
        r1 == read_byte(r0.rest)
        r2 == read_byte(r1.rest)
        r3 == read_byte(r2.rest)
        r4 == read_byte(r3.rest)
        hd == ParseHeader(r0.byte, r1.byte, r2.byte, r3.byte, r4.byte)
        r5 == read_byte(r4.rest)
    IN  IF r.kind = "Err" THEN Err
        ELSE IF ~r0.ok THEN Err
        ELSE IF ~r1.ok THEN Err
        ELSE IF ~r2.ok THEN Err
        ELSE IF ~r3.ok THEN Err
        ELSE IF ~r4.ok THEN Err
        ELSE IF hd.has_alpha /\ ~r5.ok THEN Err
        ELSE IF hd.has_alpha
        THEN DecodeBody(hd @@ ParseAlpha(TRUE, r5.byte), r, r5.rest)
        ELSE DecodeBody(hd @@ ParseAlpha(FALSE, None), r, r4.rest)

(***************************************************************************)
(* Inputs: images for the encoder, quantized values for the header and the *)
(* packer, and byte strings for the decoders.                              *)
(***************************************************************************)
Sizes == 1..MaxSize

\* every image has one side in EdgeSizes; the other side is any of Sizes
EdgeSizes == {1, 2, 3, 7, 14, 50, 99, 100}

\* sizes at which every kind of pixel content is drawn
DetailSizes == {1, 2, 3, 7, 50, 99, 100}

\* pixel content drawn at every size: opaque and flat; one transparent pixel
CorePixels(n) ==
    {  [px |-> <<200, 100, 50>>, k |-> 0, a |-> 255, flat |-> TRUE, seed |-> 0],
       IF n < 2
       THEN [px |-> <<90, 90, 90>>, k |-> 1, a |-> 254, flat |-> TRUE, seed |-> 3]
       ELSE [px |-> <<30, 60, 250>>, k |-> 1, a |-> 254, flat |-> FALSE, seed |-> 2] }

\* further pixel content of an image of n pixels (an image of one pixel is flat)
DetailPixels(n) ==
    {  [px |-> <<90, 90, 90>>, k |-> 1, a |-> 0, flat |-> TRUE, seed |-> 3],
       [px |-> <<255, 0, 0>>, k |-> n, a |-> 0, flat |-> TRUE, seed |-> 0],
       [px |-> <<0, 0, 0>>, k |-> 0, a |-> 255, flat |-> TRUE, seed |-> 0],
       [px |-> <<0, 0, 7>>, k |-> 0, a |-> 255, flat |-> TRUE, seed |-> 0],
       [px |-> <<77, 77, 77>>, k |-> n, a |-> 200, flat |-> TRUE, seed |-> 0] }
    \cup (IF n < 2 THEN {} ELSE
       {  [px |-> <<128, 128, 128>>, k |-> 0, a |-> 255, flat |-> FALSE, seed |-> 1],
          [px |-> <<30, 60, 250>>, k |-> n - 1, a |-> 0, flat |-> FALSE, seed |-> 5],
          [px |-> <<10, 200, 30>>, k |-> n, a |-> 128, flat |-> FALSE, seed |-> 4] })

Pixels(w, h) ==
    CorePixels(w * h) \cup
    (IF w \in DetailSizes /\ h \in DetailSizes THEN DetailPixels(w * h) ELSE {})

Idle ==
    /\ rgba = NotRun
    /\ avg = NotRun
    /\ ratio = NotRun

InitImage ==
    /\ \E w \in Sizes, h \in Sizes :
          /\ w \in EdgeSizes \/ h \in EdgeSizes
          /\ \E p \in Pixels(w, h) : img = [w |-> w, h |-> h] @@ p
    /\ fields = NoFields
    /\ hash = NoHash
    /\ Idle

\* uniform opaque images of every colour of a grid of ColourLevels + 1 levels
ColourLevels == 5

Levels == {(255 * i) \div ColourLevels : i \in 0..ColourLevels}

InitColour ==
    /\ \E r \in Levels, g \in Levels, b \in Levels, d \in {<<1, 1>>, <<100, 37>>} :
          img = [w |-> d[1], h |-> d[2], px |-> <<r, g, b>>,
                 k |-> 0, a |-> 255, flat |-> TRUE, seed |-> 0]
    /\ fields = NoFields
    /\ hash = NoHash
    /\ Idle

\* quantized values as an image can give them: profile s fixes the header fields,
\* pattern t the 4-bit values of the AC lists
NumProfiles == 12

NumPatterns == 3

AcPattern(t, n, off) ==
    [i \in 1..n |-> CASE t = 0 -> 0
                      [] t = 1 -> 15
                      [] OTHER -> (7 * (i + off) + 3 * t) % 16]

AcCount(nx, ny) == Len(EncScan(nx, ny, 0)) - 1

FieldsOf(s, t, has_alpha, is_landscape, limit) ==
    LET l_max == IF has_alpha THEN 5 ELSE 7
        lx == IF is_landscape THEN l_max ELSE limit
        ly == IF is_landscape THEN limit ELSE l_max
        nl == AcCount(Max(lx, 3), Max(ly, 3))
    IN  [kind |-> "Fields",
         l_dc |-> (21 * s) % 64,
         p_dc |-> (63 + 55 * s) % 64,
         q_dc |-> (13 * s + 7) % 64,
         l_scale |-> (31 + 5 * s) % 32,
         has_alpha |-> has_alpha,
         lx |-> lx,
         ly |-> ly,
         p_scale |-> (63 + 17 * s) % 64,
         q_scale |-> (29 * s) % 64,
         is_landscape |-> is_landscape,
         a_dc |-> IF has_alpha THEN (15 + 7 * s) % 16 ELSE 15,
         a_scale |-> IF has_alpha THEN (3 * s) % 16 ELSE 15,
         l_ac |-> AcPattern(t, nl, 0),
         p_ac |-> AcPattern(t, 5, nl),
         q_ac |-> AcPattern(t, 5, nl + 5),
         a_ac |-> IF has_alpha THEN AcPattern(t, 14, nl + 10) ELSE <<>>]

InitFields ==
    /\ \E s \in 0..(NumProfiles - 1), t \in 0..(NumPatterns - 1),
          has_alpha \in BOOLEAN, is_landscape \in BOOLEAN, limit \in 1..7 :
          /\ limit <= (IF has_alpha THEN 5 ELSE 7)
          /\ fields = FieldsOf(s, t, has_alpha, is_landscape, limit)
    /\ img = NoImage
    /\ hash = NoHash
    /\ Idle

\* byte strings a caller can pass: every length up to MaxHashLen, both values of
\* the alpha and landscape flags, every stored limit value 0..7
MaxHashLen == 27

Filler(n) == [i \in 1..n |-> (37 * i + 11) % 256]

InitBytes ==
    /\ \E n \in 0..MaxHashLen, b0 \in {0, 171}, b2 \in {18, 146}, b4 \in {53, 181},
          limit \in 0..7 :
          hash = SubSeq(<<b0, 92, b2, 168 + limit, b4>> \o Filler(MaxHashLen), 1, n)
    /\ img = NoImage
    /\ fields = NoFields
    /\ Idle

(***************************************************************************)
(* The operations.                                                         *)
(***************************************************************************)
\* rgba_to_thumb_hash(w, h, rgba)
Encode ==
    /\ img # NoImage
    /\ hash = NoHash
    /\ fields' = Quantize(img)
    /\ hash' = WriteHash(fields')
    /\ UNCHANGED <<img, rgba, avg, ratio>>

\* lines 98-145 of rgba_to_thumb_hash from given quantized values
Write ==
    /\ img = NoImage
    /\ fields # NoFields
    /\ hash = NoHash
    /\ hash' = WriteHash(fields)
    /\ UNCHANGED <<img, fields, rgba, avg, ratio>>

DecodeRgba ==
    /\ hash # NoHash
    /\ rgba = NotRun
    /\ rgba' = thumb_hash_to_rgba(hash)
    /\ UNCHANGED <<img, fields, hash, avg, ratio>>

AverageRgba ==
    /\ hash # NoHash
    /\ avg = NotRun
    /\ avg' = thumb_hash_to_average_rgba(hash)
    /\ UNCHANGED <<img, fields, hash, rgba, ratio>>

AspectRatio ==
    /\ hash # NoHash
    /\ ratio = NotRun
    /\ ratio' = thumb_hash_to_approximate_aspect_ratio(hash)
    /\ UNCHANGED <<img, fields, hash, rgba, avg>>

Init == InitImage \/ InitColour \/ InitFields \/ InitBytes

Next == Encode \/ Write \/ DecodeRgba \/ AverageRgba \/ AspectRatio

Spec == Init /\ [][Next]_vars

(***************************************************************************)
(* Vocabulary of the properties.                                           *)
(***************************************************************************)
\* the hash is the output of rgba_to_thumb_hash on img
Encoded == img # NoImage /\ hash # NoHash

\* the hash was written from the quantized values in fields
Written == fields # NoFields /\ hash # NoHash

\* bit 7 of byte 2, bit 7 of byte 4 and the low three bits of byte 3
AlphaFlag(hs) == (Byte(hs, 2) \div 128) % 2 = 1

LandscapeFlag(hs) == (Byte(hs, 4) \div 128) % 2 = 1

StoredLimit(hs) == Byte(hs, 3) % 8

\* the number of (cx, cy) # (0, 0) of an nx x ny grid with cx * ny < nx * (ny - cy)
TriCount(nx, ny) ==
    Cardinality({c \in (0..(nx - 1)) \X (0..(ny - 1)) :
                    c[1] * ny < nx * (ny - c[2]) /\ c # <<0, 0>>})

\* the number of AC nibbles a header with these values implies
NibbleCount(has_alpha, is_landscape, limit) ==
    LET l_max == IF has_alpha THEN 5 ELSE 7
        nx == Max(3, IF is_landscape THEN l_max ELSE limit)
        ny == Max(3, IF is_landscape THEN limit ELSE l_max)
    IN  TriCount(nx, ny) + 5 + 5 + (IF has_alpha THEN 14 ELSE 0)

\* 5 + (1 if the alpha flag is set) + ceil(N / 2); 5 when the header is incomplete
Needed(hs) ==
    IF Len(hs) < 5 THEN 5
    ELSE 5 + (IF AlphaFlag(hs) THEN 1 ELSE 0)
           + (NibbleCount(AlphaFlag(hs), LandscapeFlag(hs), StoredLimit(hs)) + 1) \div 2

\* a channel value in units of 1/den, multiplied by 255 and rounded to the nearest
To255(x, den) == (2 * 255 * x + den) \div (2 * den)

\* the i-th (1-based) 4-bit value of the nibble stream that starts at byte hdr
NibbleAt(hs, hdr, i) ==
    IF (i - 1) % 2 = 0 THEN Byte(hs, hdr + (i - 1) \div 2) % 16
    ELSE Byte(hs, hdr + (i - 1) \div 2) \div 16

AllNibbles(f) ==
    f.l_ac \o f.p_ac \o f.q_ac \o (IF f.has_alpha THEN f.a_ac ELSE <<>>)

\* some pixel of the image has alpha < 255
SomeAlphaBelow255(im) == im.k > 0 /\ AlphaOf(im, 0) < 255

\* a uniform, fully opaque image
OpaqueFlat(im) == im.flat /\ im.k = 0

AverageError(im, av) ==
    Max(Max(Abs(To255(av.r, 378) - im.px[1]), Abs(To255(av.g, 378) - im.px[2])),
        Max(Abs(To255(av.b, 378) - im.px[3]), Abs(To255(av.a, 15) - 255)))

\* every AC sum of the channel over an nx x ny grid is zero
ZeroAc(im, ch, nx, ny) ==
    \A c \in (0..(nx - 1)) \X (0..(ny - 1)) :
        (c[1] * ny < nx * (ny - c[2]) /\ c # <<0, 0>>) => DctAC(im, ch, c[1], c[2]) = 0

AllEqual(us, v) == \A i \in 1..Len(us) : us[i] = v

(***************************************************************************)
(* C1.                                                                     *)
(***************************************************************************)
\* C1: for a hash of exactly 5 bytes whose alpha flag is set, and for every hash
\* shorter than 5 bytes, thumb_hash_to_average_rgba returns the TooShort error
C1_AverageTooShort ==
    (avg # NotRun /\ (Len(hash) < 5 \/ (Len(hash) = 5 /\ AlphaFlag(hash))))
        => avg = Err

C3_EncodedLength ==
    Encoded =>
        LET alpha == SomeAlphaBelow255(img)
            T == TriCount(Max(enc_lx(img), 3), Max(enc_ly(img), 3)) + 5 + 5
                    + (IF alpha THEN 14 ELSE 0)
        IN  /\ Len(hash) = 5 + (IF alpha THEN 1 ELSE 0) + (T + 1) \div 2
            /\ Len(hash) <= 25
            /\ (img.w = 1 /\ img.h = 1 /\ ~alpha) => Len(hash) = 24
            /\ Len(hash) = Needed(hash)
            /\ rgba # NotRun => (rgba.kind = "Ok" /\ rgba.unread = 0)

C3_Witness ==
    /\ Encoded
    /\ img.w >= 4 /\ img.h >= 4 /\ OpaqueFlat(img)
    /\ AllEqual(AllNibbles(fields), 0)
    /\ Len(hash) = 24
    /\ rgba.kind = "Ok"

(***************************************************************************)
(* C4.                                                                     *)
(***************************************************************************)
\* C4 as stated: for every image with width > height the hash has is_landscape
\* = 1 and its decoding has width = 32 and width > height
C4_LandscapeStrict ==
    (Encoded /\ img.w > img.h) =>
        /\ LandscapeFlag(hash)
        /\ rgba # NotRun => (rgba.kind = "Ok" /\ rgba.w = 32 /\ rgba.w > rgba.h)

\* C4 amended: for every image with width > height the hash has is_landscape = 1
\* and its decoding has width = 32 and height <= 32; the height is below 32
\* exactly when l_limit * height / width rounds below l_limit, that is when
\* 2 * l_limit * height < (2 * l_limit - 1) * width
C4_Landscape ==
    (Encoded /\ img.w > img.h) =>
        LET l == IF SomeAlphaBelow255(img) THEN 5 ELSE 7
        IN  /\ LandscapeFlag(hash)
            /\ rgba # NotRun =>
                  /\ rgba.kind = "Ok"
                  /\ rgba.w = 32
                  /\ rgba.h <= 32
                  /\ rgba.h < 32 <=> 2 * l * img.h < (2 * l - 1) * img.w

C4_Witness ==
    /\ Encoded
    /\ img.w = 100 /\ img.h = 99
    /\ rgba.kind = "Ok"
    /\ rgba.w = 32 /\ rgba.h = 32

(***************************************************************************)
(* C5.                                                                     *)
(***************************************************************************)
\* C5: the has_alpha bit of the encoder's output is 1 iff some pixel has alpha
\* < 255; the 6th byte holds a_dc and a_scale iff that bit is 1, and otherwise
\* byte 5 is the first byte of AC values
C5_HasAlpha ==
    Encoded =>
        /\ AlphaFlag(hash) <=> SomeAlphaBelow255(img)
        /\ AlphaFlag(hash) =>
              /\ Byte(hash, 5) = fields.a_dc + 16 * fields.a_scale
              /\ Byte(hash, 6) = fields.l_ac[1] + 16 * fields.l_ac[2]
        /\ ~AlphaFlag(hash) => Byte(hash, 5) = fields.l_ac[1] + 16 * fields.l_ac[2]

C5_Witness ==
    /\ Encoded
    /\ img.w = 100 /\ img.h = 100 /\ img.k = 1 /\ img.a = 254
    /\ AlphaFlag(hash)
    /\ Byte(hash, 5) = fields.a_dc + 16 * fields.a_scale

(***************************************************************************)
(* C6.                                                                     *)
(***************************************************************************)
\* C6 as stated: for a uniform opaque image of colour (R, G, B, 255) the average
\* colour of its hash, times 255 and rounded, differs from R, G, B and 255 by at
\* most 2
C6_AverageWithin2 ==
    (Encoded /\ OpaqueFlat(img) /\ avg # NotRun) =>
        (avg.kind = "Ok" /\ AverageError(img, avg) <= 2)

\* C6 amended: for a uniform opaque image of colour (R, G, B, 255) the average
\* colour of its hash, times 255 and rounded, differs from R, G, B by at most 5
\* and gives alpha 255
C6_AverageWithin5 ==
    (Encoded /\ OpaqueFlat(img) /\ avg # NotRun) =>
        /\ avg.kind = "Ok"
        /\ AverageError(img, avg) <= 5
        /\ To255(avg.a, 15) = 255

C6_Witness ==
    /\ Encoded /\ OpaqueFlat(img)
    /\ img.px = <<0, 0, 7>>
    /\ avg.kind = "Ok"
    /\ To255(avg.r, 378) = 5

(***************************************************************************)
(* C7.                                                                     *)
(***************************************************************************)
\* C7 as stated: the aspect ratio of the encoder's hash equals lx / ly of the L
\* grid dimensions thumb_hash_to_rgba derives from the same header
C7_RatioEqualsGrid ==
    (Encoded /\ ratio # NotRun /\ rgba # NotRun) =>
        /\ ratio.kind = "Ok" /\ rgba.kind = "Ok"
        /\ ratio.lx * rgba.hd.ly = ratio.ly * rgba.hd.lx

\* C7 amended: the decoder's L grid dimensions are those of the aspect ratio
\* raised to at least 3, so the aspect ratio equals the decoder's lx / ly exactly
\* when the stored limit value is at least 3
C7_RatioVsGrid ==
    (Encoded /\ ratio # NotRun /\ rgba # NotRun) =>
        /\ ratio.kind = "Ok" /\ rgba.kind = "Ok"
        /\ rgba.hd.lx = Max(3, ratio.lx)
        /\ rgba.hd.ly = Max(3, ratio.ly)
        /\ ratio.lx * rgba.hd.ly = ratio.ly * rgba.hd.lx <=> StoredLimit(hash) >= 3

C7_Witness ==
    /\ Encoded
    /\ img.w = 100 /\ img.h = 10
    /\ ratio.kind = "Ok" /\ rgba.kind = "Ok"
    /\ StoredLimit(hash) = 1
    /\ ratio.lx = 7 /\ ratio.ly = 1
    /\ rgba.hd.lx = 7 /\ rgba.hd.ly = 3

(***************************************************************************)
(* C8.                                                                     *)
(***************************************************************************)
\* C8: the 4-bit values packed in the order L, P, Q, A are unpacked by the decoder
\* to the same sequences; value i is in byte i div 2 after the header, low nibble
\* first, across channel boundaries; the alpha header byte is left as written and
\* an unused final high nibble is 0
C8_NibbleRoundTrip ==
    Written =>
        LET us == AllNibbles(fields)
            hdr == IF fields.has_alpha THEN 6 ELSE 5
        IN  /\ Len(hash) = hdr + (Len(us) + 1) \div 2
            /\ \A i \in 1..Len(us) : NibbleAt(hash, hdr, i) = us[i]
            /\ Len(us) % 2 = 1 => NibbleAt(hash, hdr, Len(us) + 1) = 0
            /\ fields.has_alpha => Byte(hash, 5) = fields.a_dc + 16 * fields.a_scale
            /\ rgba # NotRun =>
                  /\ rgba.kind = "Ok"
                  /\ rgba.l_ac = fields.l_ac
                  /\ rgba.p_ac = fields.p_ac
                  /\ rgba.q_ac = fields.q_ac
                  /\ rgba.a_ac = (IF fields.has_alpha THEN fields.a_ac ELSE <<>>)

C8_Witness ==
    /\ Written
    /\ rgba.kind = "Ok"
    /\ Len(fields.l_ac) % 2 = 1
    /\ Len(AllNibbles(fields)) % 2 = 1
    /\ fields.l_ac[Len(fields.l_ac)] # 0
    /\ fields.p_ac[1] # 0
    /\ fields.p_ac[1] # fields.l_ac[Len(fields.l_ac)]
    /\ rgba.p_ac = fields.p_ac

(***************************************************************************)
(* C9.                                                                     *)
(***************************************************************************)
\* C9: the header fields written by the encoder are parsed back to the same
\* values by thumb_hash_to_rgba, and thumb_hash_to_average_rgba and
\* thumb_hash_to_approximate_aspect_ratio read the same l_dc, p_dc, q_dc, a_dc,
\* has_alpha, l_limit_value and is_landscape; for every encoder output the stored
\* l_limit_value is in 1..7 and the long-axis grid dimension is 7 without alpha
\* and 5 with alpha
C9_HeaderRoundTrip ==
    Written =>
        LET limit == IF fields.is_landscape THEN fields.ly ELSE fields.lx
        IN  /\ rgba # NotRun =>
                  /\ rgba.kind = "Ok"
                  /\ rgba.hd.l_dc = fields.l_dc
                  /\ rgba.hd.p_dc = fields.p_dc
                  /\ rgba.hd.q_dc = fields.q_dc
                  /\ rgba.hd.l_scale = fields.l_scale
                  /\ rgba.hd.has_alpha = fields.has_alpha
                  /\ rgba.hd.l_limit_value = limit
                  /\ rgba.hd.p_scale = fields.p_scale
                  /\ rgba.hd.q_scale = fields.q_scale
                  /\ rgba.hd.is_landscape = fields.is_landscape
                  /\ fields.has_alpha =>
                        (rgba.hd.a_dc = fields.a_dc /\ rgba.hd.a_scale = fields.a_scale)
            /\ avg # NotRun =>
                  /\ avg.kind = "Ok"
                  /\ avg.l_dc = fields.l_dc
                  /\ avg.p_dc = fields.p_dc
                  /\ avg.q_dc = fields.q_dc
                  /\ avg.has_alpha = fields.has_alpha
                  /\ fields.has_alpha => avg.a_dc = fields.a_dc
            /\ ratio # NotRun =>
                  /\ ratio.kind = "Ok"
                  /\ ratio.has_alpha = fields.has_alpha
                  /\ ratio.l_min = limit
                  /\ ratio.is_landscape = fields.is_landscape
            /\ Encoded =>
                  /\ StoredLimit(hash) \in 1..7
                  /\ Max(fields.lx, fields.ly) = (IF fields.has_alpha THEN 5 ELSE 7)
                  /\ rgba # NotRun =>
                        Max(rgba.hd.lx, rgba.hd.ly) = (IF fields.has_alpha THEN 5 ELSE 7)

C9_Witness ==
    /\ Written /\ img = NoImage
    /\ fields.has_alpha /\ fields.is_landscape
    /\ fields.p_dc = 63 /\ fields.l_scale = 31 /\ fields.p_scale = 63
    /\ fields.a_dc = 15 /\ fields.ly = 5
    /\ rgba.kind = "Ok" /\ rgba.hd.p_scale = 63 /\ rgba.hd.l_limit_value = 5
    /\ avg.kind = "Ok" /\ avg.p_dc = 63
    /\ ratio.kind = "Ok" /\ ratio.l_min = 5

(***************************************************************************)
(* C10.                                                                    *)
(***************************************************************************)
ChannelZeroGives(v) ==
    Encoded =>
        /\ ZeroAc(img, "l", Max(fields.lx, 3), Max(fields.ly, 3))
              => (fields.l_scale = 0 /\ AllEqual(fields.l_ac, v))
        /\ ZeroAc(img, "p", 3, 3) => (fields.p_scale = 0 /\ AllEqual(fields.p_ac, v))
        /\ ZeroAc(img, "q", 3, 3) => (fields.q_scale = 0 /\ AllEqual(fields.q_ac, v))
        /\ (fields.has_alpha /\ ZeroAc(img, "a", 5, 5))
              => (fields.a_scale = 0 /\ AllEqual(fields.a_ac, v))

\* C10 as stated: when every AC coefficient of a channel is zero, the channel's
\* scale field is 0 and each of its emitted 4-bit values is 8
C10_ZeroChannelMidpoint == ChannelZeroGives(8)

\* C10 amended: when every AC coefficient of a channel is zero, the channel's
\* scale field is 0, its AC values are left at 0 and each of its emitted 4-bit
\* values is 0
C10_ZeroChannelZero == ChannelZeroGives(0)

C10_Witness ==
    /\ Encoded
    /\ img.flat /\ img.px[1] = img.px[2] /\ img.px[2] = img.px[3] /\ img.px[1] > 0
    /\ ZeroAc(img, "p", 3, 3)
    /\ fields.p_scale = 0
    /\ fields.p_ac = <<0, 0, 0, 0, 0>>
    /\ Len(hash) >= 24

====
